---- MODULE Spec2Model ----
(***************************************************************************)
(* Playback scheduler of the Diplomacy replay viewer.                      *)
(*                                                                         *)
(* The module models the script of src/ai_animation/src/main.js: the      *)
(* render loop (animate), the play/pause toggle, the timer driven phase    *)
(* advance, the step-wise message reveal (updateChatWindows / showNext),   *)
(* manual stepping, speed changes and replay loading.  Timers armed with   *)
(* setTimeout are kept in the set `timers' and fire in any order; the      *)
(* render loop runs at any moment.                                         *)
(*                                                                         *)
(* The phase module (_setPhase, nextPhase, previousPhase, displayPhase,    *)
(* advanceToNextPhase over the shared gameState object; main.js lines      *)
(* 2311-2610) is the second program of the repository.  `running' says     *)
(* which of the two a behaviour is a run of.                               *)
(***************************************************************************)
EXTENDS Integers, Sequences, FiniteSets, Bags, TLC

VARIABLES
  running,            \* "script" (main.js globals) or "phase" (phase module)
  gameState,          \* the gameState object of the phase module
  gameData,           \* the loaded document ("null" before the first load)
  currentPhaseIndex,
  isPlaying,
  playbackSpeed,
  playbackTimer,      \* whether the variable holds a timer handle (FALSE = null)
  unitAnimations,     \* sequence of running unit animations
  unitMeshes,         \* number of unit objects in unitMeshes (supply centers aside)
  messagesPlaying,
  chatWindows,        \* bucket -> [seen, entries]; empty function before load
  disabled,           \* the disabled flag of the four controls
  timers,             \* bag of the armed and not yet fired setTimeout callbacks
  last                \* the handler that ran last, with what it saw

vars == <<running, gameState, gameData, currentPhaseIndex, isPlaying, playbackSpeed, playbackTimer,
          unitAnimations, unitMeshes, messagesPlaying, chatWindows, disabled, timers, last>>

----------------------------------------------------------------------------
(* Bounds of the model. *)

\* armed timers kept at one time
MaxTimers == 2
\* clock steps one unit animation lasts (animationDuration in clock steps)
AnimSteps == 2
\* unit objects kept on the map at one time
MaxMeshes == 4
\* entries kept in scene.userData.animatedObjects
MaxRegistered == 4
\* units one power has in a phase handed to the planner
MaxUnits == 2

----------------------------------------------------------------------------
(* Replay documents. *)

currentPower == "FRANCE"

Msg(s, r, t, txt) == [sender |-> s, recipient |-> r, time_sent |-> t, message |-> txt]

\* a unit string "<type><sep><location>"
U(type, loc) == <<type, " ", loc>>

PhasesA ==
  << [name |-> "S1901M",
      messages |-> << >>,
      units |-> << <<"ENGLAND", << U("F", "LON") >> >> >>],
     [name |-> "F1901M",
      messages |-> << Msg("FRANCE", "GLOBAL", 100, <<"Hi">>),
                      Msg("GERMANY", "ENGLAND", 10, <<"Psst">>) >>,
      units |-> << <<"ENGLAND", << U("F", "NTH") >> >>,
                   <<"FRANCE", << U("A", "PAR") >> >> >>],
     [name |-> "W1901A",
      messages |-> << Msg("FRANCE", "GLOBAL", 100, <<"Hi">>),
                      Msg("FRANCE", "ENGLAND", 70, <<"Ok">>),
                      Msg("ENGLAND", "FRANCE", 50, <<"Yo">>) >>,
      units |-> << <<"FRANCE", << U("A", "BUR") >> >> >>] >>

PhasesB ==
  << [name |-> "S1902M",
      messages |-> << Msg("ITALY", "GLOBAL", 5, <<"Ciao">>) >>,
      units |-> << >>],
     [name |-> "F1902M",
      messages |-> << >>,
      units |-> << <<"ITALY", << U("A", "ROM") >> >> >>],
     [name |-> "W1902A",
      messages |-> << Msg("GERMANY", "ENGLAND", 7, <<"Shh">>) >>,
      units |-> << <<"ITALY", << U("A", "ROM") >> >> >>] >>

\* a replay whose first phase has neither messages nor units
PhasesD ==
  << [name |-> "S1903M",
      messages |-> << >>,
      units |-> << >>],
     [name |-> "F1903M",
      messages |-> << >>,
      units |-> << <<"RUSSIA", << U("A", "MOS") >> >> >>] >>

\* a replay of one phase
PhasesS ==
  << [name |-> "S1904M",
      messages |-> << Msg("FRANCE", "GLOBAL", 1, <<"Solo">>) >>,
      units |-> << <<"ENGLAND", << U("F", "LON") >> >> >>] >>

\* the files a user may pick: A and B are replays, E is a document whose
\* phases list is empty, N a document without a phases field, X is not JSON
Files == {"A", "B", "E", "N", "X"}

\* the files that hold a replay
Replays == {"A", "B"}

\* JSON.parse(e.target.result) returns a document
Parses(file) == file # "X"

\* gameData.phases is a list
HasPhases(d) == d \in {"A", "B", "D", "E", "S"}

Phases(d) ==
  CASE d = "A" -> PhasesA
    [] d = "B" -> PhasesB
    [] d = "D" -> PhasesD
    [] d = "S" -> PhasesS
    [] OTHER -> << >>

NumPhases(d) == Len(Phases(d))

Speeds == {200, 500}

Buckets == {"GLOBAL", "AUSTRIA", "ENGLAND", "GERMANY", "ITALY", "RUSSIA", "TURKEY"}

----------------------------------------------------------------------------
(* The script's variables as one record, threaded through the handlers. *)

St == [gameData |-> gameData, currentPhaseIndex |-> currentPhaseIndex,
       isPlaying |-> isPlaying, playbackSpeed |-> playbackSpeed,
       playbackTimer |-> playbackTimer, unitAnimations |-> unitAnimations,
       unitMeshes |-> unitMeshes,
       messagesPlaying |-> messagesPlaying, chatWindows |-> chatWindows,
       disabled |-> disabled, timers |-> timers]

Becomes(s) ==
  /\ gameData' = s.gameData
  /\ currentPhaseIndex' = s.currentPhaseIndex
  /\ isPlaying' = s.isPlaying
  /\ playbackSpeed' = s.playbackSpeed
  /\ playbackTimer' = s.playbackTimer
  /\ unitAnimations' = s.unitAnimations
  /\ unitMeshes' = s.unitMeshes
  /\ s.unitMeshes <= MaxMeshes
  /\ messagesPlaying' = s.messagesPlaying
  /\ chatWindows' = s.chatWindows
  /\ disabled' = s.disabled
  /\ timers' = s.timers
  /\ BagCardinality(s.timers) <= MaxTimers
  /\ running = "script"
  /\ UNCHANGED <<running, gameState>>

----------------------------------------------------------------------------
(* setTimeout / clearTimeout. *)

\* A handle matters only for whether playbackTimer still refers to an armed
\* timer: the timer whose handle playbackTimer holds carries held = TRUE, and
\* playbackTimer = TRUE with no held timer is the handle of a timer that fired.
\* stale marks a timer armed before the last replay load.
AdvanceTimer(delay) ==
  [kind |-> "advance", delay |-> delay, doc |-> "", phase |-> 0, index |-> 0,
   held |-> TRUE, stale |-> FALSE]

\* setTimeout(showNext, playbackSpeed * 3); the closure keeps its phase and index
ShowNextTimer(doc, phase, index) ==
  [kind |-> "showNext", delay |-> 0, doc |-> doc, phase |-> phase, index |-> index,
   held |-> FALSE, stale |-> FALSE]

RECURSIVE SumCopies(_, _)
SumCopies(S, b) ==
  IF S = {} THEN 0
  ELSE LET t == CHOOSE x \in S : TRUE IN CopiesIn(t, b) + SumCopies(S \ {t}, b)

Unheld(t) == [t EXCEPT !.held = FALSE]
Staled(t) == [t EXCEPT !.stale = TRUE]

\* the bag with every timer no longer the one playbackTimer refers to
UnholdAll(b) ==
  LET S == BagToSet(b)
  IN  [u \in {Unheld(t) : t \in S} |-> SumCopies({t \in S : Unheld(t) = u}, b)]

StaleAll(b) ==
  LET S == BagToSet(b)
  IN  [u \in {Staled(t) : t \in S} |-> SumCopies({t \in S : Staled(t) = u}, b)]

\* clearTimeout(playbackTimer)
clearTimeout(s) ==
  LET S == BagToSet(s.timers)
  IN  [s EXCEPT !.timers = [u \in {t \in S : ~t.held} |-> s.timers[u]]]

\* playbackTimer = setTimeout(() => advanceToNextPhase(), playbackSpeed)
ScheduleAdvance(s) ==
  [s EXCEPT !.timers = UnholdAll(@) (+) SetToBag({AdvanceTimer(s.playbackSpeed)}),
            !.playbackTimer = TRUE]

----------------------------------------------------------------------------
(* Chat windows. *)

EmptyWindows == [b \in {} |-> 0]

createChatWindows(s) ==
  [s EXCEPT !.chatWindows =
     [b \in Buckets |-> [seenMessages |-> {}, messagesContainer |-> << >>]]]

\* `${msg.sender}-${msg.recipient}-${msg.time_sent}-${msg.message}`
MsgId(msg) == <<msg.sender, "-", msg.recipient, "-", msg.time_sent, "-">> \o msg.message

TargetPower(msg) ==
  IF msg.recipient = "GLOBAL" THEN "GLOBAL"
  ELSE IF msg.sender = currentPower THEN msg.recipient ELSE msg.sender

\* addMessageToChat without the seenMessages test
addMessageToChatUnseen(s, msg, phaseName) ==
  LET targetPower == TargetPower(msg)
      msgId == MsgId(msg)
  IN  IF targetPower \notin DOMAIN s.chatWindows THEN s
      ELSE [s EXCEPT !.chatWindows[targetPower] =
              [seenMessages |-> @.seenMessages \cup {msgId},
               messagesContainer |-> Append(@.messagesContainer,
                                            [msg |-> msg, phase |-> phaseName])]]

addMessageToChat(s, msg, phaseName) ==
  LET targetPower == TargetPower(msg)
      msgId == MsgId(msg)
  IN  IF targetPower \notin DOMAIN s.chatWindows THEN s
      ELSE IF msgId \in s.chatWindows[targetPower].seenMessages THEN s
      ELSE [s EXCEPT !.chatWindows[targetPower] =
              [seenMessages |-> @.seenMessages \cup {msgId},
               messagesContainer |-> Append(@.messagesContainer,
                                            [msg |-> msg, phase |-> phaseName])]]

\* the filter letting every message with a recipient through
IsRelevantAny(msg) == msg.recipient # ""

IsRelevant(msg) ==
  \/ msg.sender = currentPower
  \/ msg.recipient = currentPower
  \/ msg.recipient = "GLOBAL"

\* Array.prototype.sort with (a, b) => a.time_sent - b.time_sent (stable)
RECURSIVE InsertByTime(_, _)
InsertByTime(sorted, m) ==
  IF sorted = << >> THEN <<m>>
  ELSE IF sorted[Len(sorted)].time_sent <= m.time_sent THEN Append(sorted, m)
  ELSE Append(InsertByTime(SubSeq(sorted, 1, Len(sorted) - 1), m), sorted[Len(sorted)])

RECURSIVE SortByTime(_)
SortByTime(ms) ==
  IF ms = << >> THEN << >>
  ELSE InsertByTime(SortByTime(SubSeq(ms, 1, Len(ms) - 1)), ms[Len(ms)])

relevantMessages(phase) == SortByTime(SelectSeq(phase.messages, IsRelevant))

\* showNext taking the completion branch one message early
showNextEarly(s, doc, p, index) ==
  LET phase == Phases(doc)[p]
      rel == relevantMessages(phase)
  IN  IF index >= Len(rel) - 1
      THEN LET s1 == [s EXCEPT !.messagesPlaying = FALSE]
           IN  IF Len(s1.unitAnimations) = 0 /\ s1.isPlaying
               THEN ScheduleAdvance(s1)
               ELSE s1
      ELSE LET s1 == addMessageToChat(s, rel[index + 1], phase.name)
           IN  [s1 EXCEPT !.timers = @ (+) SetToBag({ShowNextTimer(doc, p, index + 1)})]

\* one run of the closure showNext of updateChatWindows(phase, true), where
\* phase = Phases(doc)[p] and index is the closure's counter
showNext(s, doc, p, index) ==
  LET phase == Phases(doc)[p]
      rel == relevantMessages(phase)
  IN  IF index >= Len(rel)
      THEN LET s1 == [s EXCEPT !.messagesPlaying = FALSE]
           IN  IF Len(s1.unitAnimations) = 0 /\ s1.isPlaying
               THEN ScheduleAdvance(s1)
               ELSE s1
      ELSE LET s1 == addMessageToChat(s, rel[index + 1], phase.name)
           IN  [s1 EXCEPT !.timers = @ (+) SetToBag({ShowNextTimer(doc, p, index + 1)})]

\* updateChatWindows(phase, true) for phase = Phases(doc)[p]
updateChatWindows(s, doc, p) ==
  IF Len(Phases(doc)[p].messages) = 0
  THEN [s EXCEPT !.messagesPlaying = FALSE]
  ELSE showNext([s EXCEPT !.messagesPlaying = TRUE], doc, p, 0)

----------------------------------------------------------------------------
(* Unit animations. *)

\* a match that accepts every unit string
MatchesAnything(unitStr) == unitStr # << >>

\* unitStr.match(/^([AF])\s+(.+)$/)
Matches(unitStr) == unitStr[1] \in {"A", "F"} /\ unitStr[2] = " " /\ unitStr[3] # ""

\* the (power, unit string) pairs of a units map, in Object.entries order
RECURSIVE FlattenUnits(_)
FlattenUnits(units) ==
  IF units = << >> THEN << >>
  ELSE LET power == units[1][1]
           arr == units[1][2]
       IN  [i \in 1..Len(arr) |-> [power |-> power, unitStr |-> arr[i]]]
           \o FlattenUnits(Tail(units))

UnitKey(e) == [power |-> e.power, type |-> e.unitStr[1], location |-> e.unitStr[3]]

\* the keys of previousUnitPositions in insertion order (a repeated key keeps
\* its first place)
RECURSIVE PreviousKeys(_, _)
PreviousKeys(es, acc) ==
  IF es = << >> THEN acc
  ELSE LET e == es[1]
           k == UnitKey(e)
       IN  IF Matches(e.unitStr) /\ \A i \in 1..Len(acc) : acc[i] # k
           THEN PreviousKeys(Tail(es), Append(acc, k))
           ELSE PreviousKeys(Tail(es), acc)

\* index of the first key of the same power and type, 0 when there is none
\* the search of previousUnitPositions taking the last key that fits
FirstMatchLast(prev, power, type) ==
  LET hits == {i \in 1..Len(prev) : prev[i].power = power /\ prev[i].type = type}
  IN  IF hits = {} THEN 0 ELSE CHOOSE i \in hits : \A j \in hits : i >= j

FirstMatch(prev, power, type) ==
  LET hits == {i \in 1..Len(prev) : prev[i].power = power /\ prev[i].type = type}
  IN  IF hits = {} THEN 0 ELSE CHOOSE i \in hits : \A j \in hits : i <= j

RemoveAt(seq, i) == SubSeq(seq, 1, i - 1) \o SubSeq(seq, i + 1, Len(seq))

RECURSIVE PlanAnimations(_, _, _)
PlanAnimations(es, prev, acc) ==
  IF es = << >> THEN acc
  ELSE LET e == es[1]
       IN  IF ~Matches(e.unitStr) THEN PlanAnimations(Tail(es), prev, acc)
           ELSE LET k == UnitKey(e)
                    m == FirstMatch(prev, k.power, k.type)
                    anim == [power |-> k.power, type |-> k.type,
                             startPos |-> IF m = 0 THEN "below" ELSE prev[m].location,
                             endPos |-> k.location,
                             elapsed |-> 0, position |-> 0]
                IN  PlanAnimations(Tail(es),
                                   IF m = 0 THEN prev ELSE RemoveAt(prev, m),
                                   Append(acc, anim))

\* every planned animation comes with a new unit object pushed on unitMeshes
animateUnitsForPhase(s, currentPhase, previousPhase) ==
  LET anims == PlanAnimations(FlattenUnits(currentPhase.units),
                              PreviousKeys(FlattenUnits(previousPhase.units), << >>),
                              << >>)
  IN  [s EXCEPT !.unitAnimations = anims, !.unitMeshes = @ + Len(anims)]

PrevIndex(index, n) == IF index > 0 THEN index - 1 ELSE n - 1

----------------------------------------------------------------------------
(* Phase display and advance.  Phase indices are 0-based as in the script. *)

displayPhaseWithAnimation(s, index) ==
  LET d == s.gameData
      n == NumPhases(d)
      \* the old unit objects are removed from the scene and from unitMeshes
      s0 == [s EXCEPT !.unitMeshes = 0]
  IN  IF d = "null" \/ ~HasPhases(d) \/ index < 0 \/ index >= n THEN s
      ELSE IF Len(Phases(d)[index + 1].messages) > 0
           THEN updateChatWindows(s0, d, index + 1)
           ELSE animateUnitsForPhase(s0, Phases(d)[index + 1],
                                     Phases(d)[PrevIndex(index, n) + 1])

\* advanceToNextPhase without the loop back to the first phase
NextIndexNoWrap(index, n) == index + 1

NextIndex(index, n) == IF index >= n - 1 THEN 0 ELSE index + 1

advanceToNextPhase(s) ==
  IF ~HasPhases(s.gameData) THEN s
  ELSE LET i == NextIndex(s.currentPhaseIndex, NumPhases(s.gameData))
       IN  displayPhaseWithAnimation([s EXCEPT !.currentPhaseIndex = i], i)

----------------------------------------------------------------------------
(* The handlers. *)

Ran(op, stale) ==
  last' = [op |-> op, index |-> currentPhaseIndex, stale |-> stale, threw |-> FALSE]

\* unitAnimations.forEach((anim, index) => ...) of animate: a finished
\* animation is spliced out while the loop runs, so the entry that follows it
\* moves into the visited slot and is not visited in this pass.  position is
\* the progress anim.object.position was last written with: 0 is the start
\* position the object is created at, a value between 0 and AnimSteps an
\* interpolated position
RECURSIVE ForEachAnimation(_, _, _)
ForEachAnimation(anims, index, len) ==
  IF index > len \/ index > Len(anims) THEN anims
  ELSE IF anims[index].elapsed < AnimSteps
       THEN ForEachAnimation([anims EXCEPT ![index].position = anims[index].elapsed],
                             index + 1, len)
       ELSE ForEachAnimation(RemoveAt(anims, index), index + 1, len)

\* the part of animate that starts the unit animations once the messages are done
StartUnitAnimations(s) ==
  IF s.isPlaying /\ ~s.messagesPlaying /\ Len(s.unitAnimations) = 0 /\ HasPhases(s.gameData)
  THEN LET d == s.gameData
           i == s.currentPhaseIndex
       IN  animateUnitsForPhase(s, Phases(d)[i + 1], Phases(d)[PrevIndex(i, NumPhases(d)) + 1])
  ELSE s

\* the part of animate that moves the units and arms the advance
ProcessUnitAnimations(s) ==
  LET left == ForEachAnimation(s.unitAnimations, 1, Len(s.unitAnimations))
      s1 == [s EXCEPT !.unitAnimations = left]
  IN  IF Len(s.unitAnimations) > 0 /\ Len(left) = 0 /\ s.isPlaying /\ ~s.messagesPlaying
      THEN ScheduleAdvance(s1)
      ELSE s1

\* a tick with an empty phase list throws in animateUnitsForPhase and ends there
animate ==
  /\ ~(isPlaying /\ ~messagesPlaying /\ Len(unitAnimations) = 0
       /\ HasPhases(gameData) /\ NumPhases(gameData) = 0)
  /\ Becomes(ProcessUnitAnimations(StartUnitAnimations(St)))
  /\ Ran("animate", FALSE)

\* Date.now() moves on between two handlers
Clock ==
  /\ \E i \in 1..Len(unitAnimations) : unitAnimations[i].elapsed < AnimSteps
  /\ unitAnimations' = [i \in 1..Len(unitAnimations) |->
        [unitAnimations[i] EXCEPT !.elapsed = IF @ < AnimSteps THEN @ + 1 ELSE @]]
  /\ running = "script"
  /\ UNCHANGED <<running, gameState, gameData, currentPhaseIndex, isPlaying, playbackSpeed,
                 playbackTimer, unitMeshes, messagesPlaying, chatWindows, disabled, timers, last>>

PlaybackOn(s) ==
  LET s1 == [s EXCEPT !.isPlaying = TRUE, !.disabled.prev = TRUE, !.disabled.next = TRUE]
      p == s1.currentPhaseIndex + 1
  IN  IF Len(Phases(s1.gameData)[p].messages) > 0
      THEN updateChatWindows(s1, s1.gameData, p)
      ELSE displayPhaseWithAnimation(s1, s1.currentPhaseIndex)

PlaybackOff(s) ==
  LET s1 == [s EXCEPT !.isPlaying = FALSE]
      s2 == IF s1.playbackTimer
            THEN [clearTimeout(s1) EXCEPT !.playbackTimer = FALSE]
            ELSE s1
  IN  [s2 EXCEPT !.unitAnimations = << >>, !.messagesPlaying = FALSE,
                 !.disabled.prev = FALSE, !.disabled.next = FALSE]

\* togglePlayback without the test of the number of phases
togglePlaybackOfAny(s) ==
  IF s.gameData = "null" \/ ~HasPhases(s.gameData) \/ NumPhases(s.gameData) < 1 THEN s
  ELSE IF ~s.isPlaying THEN PlaybackOn(s) ELSE PlaybackOff(s)

togglePlaybackOf(s) ==
  IF s.gameData = "null" \/ ~HasPhases(s.gameData) \/ NumPhases(s.gameData) <= 1 THEN s
  ELSE IF ~s.isPlaying THEN PlaybackOn(s) ELSE PlaybackOff(s)

togglePlayback ==
  /\ ~disabled.play
  /\ Becomes(togglePlaybackOf(St))
  /\ Ran("togglePlayback", FALSE)

prevBtnClick ==
  /\ ~disabled.prev
  /\ Becomes(IF currentPhaseIndex > 0
             THEN displayPhaseWithAnimation(
                    [St EXCEPT !.currentPhaseIndex = @ - 1], currentPhaseIndex - 1)
             ELSE St)
  /\ Ran("prev", FALSE)

\* the click handler of nextBtn going on to phase 0 after the last phase
nextBtnClickWrapping ==
  /\ ~disabled.next
  /\ Becomes(IF gameData # "null" /\ HasPhases(gameData) /\ NumPhases(gameData) > 0
             THEN LET i == NextIndex(currentPhaseIndex, NumPhases(gameData))
                  IN  displayPhaseWithAnimation([St EXCEPT !.currentPhaseIndex = i], i)
             ELSE St)
  /\ Ran("next", FALSE)

nextBtnClick ==
  /\ ~disabled.next
  /\ Becomes(IF gameData # "null" /\ HasPhases(gameData)
                /\ currentPhaseIndex < NumPhases(gameData) - 1
             THEN displayPhaseWithAnimation(
                    [St EXCEPT !.currentPhaseIndex = @ + 1], currentPhaseIndex + 1)
             ELSE St)
  /\ Ran("next", FALSE)

\* the change handler reading the option's value as seconds
speedChangeOfSeconds(s, v) ==
  LET s1 == [s EXCEPT !.playbackSpeed = v * 1000]
  IN  IF s1.isPlaying /\ s1.playbackTimer
      THEN ScheduleAdvance(clearTimeout(s1))
      ELSE s1

speedChangeOf(s, v) ==
  LET s1 == [s EXCEPT !.playbackSpeed = v]
  IN  IF s1.isPlaying /\ s1.playbackTimer
      THEN ScheduleAdvance(clearTimeout(s1))
      ELSE s1

speedSelectorChange ==
  /\ ~disabled.speed
  /\ \E v \in Speeds \ {playbackSpeed} : Becomes(speedChangeOf(St, v))
  /\ Ran("speed", FALSE)

\* displayInitialPhase(index) of the script: the old unit objects are removed
\* and one is displayed per unit of the phase; no message is shown
scriptDisplayInitialPhase(s, index) ==
  LET d == s.gameData
  IN  IF d = "null" \/ ~HasPhases(d) \/ index < 0 \/ index >= NumPhases(d) THEN s
      ELSE [s EXCEPT !.unitMeshes =
              Len(SelectSeq(FlattenUnits(Phases(d)[index + 1].units),
                            LAMBDA e : Matches(e.unitStr)))]

\* reader.onload of loadGame; the timers armed before it are marked stale
loadGameOf(s, file) ==
  LET s1 == [s EXCEPT !.gameData = file, !.currentPhaseIndex = 0,
                           !.timers = StaleAll(@)]
  IN  IF ~Parses(file) THEN s
      ELSE IF NumPhases(file) > 0
      THEN scriptDisplayInitialPhase(
             createChatWindows(
               [s1 EXCEPT !.disabled = [prev |-> FALSE, next |-> FALSE,
                                        play |-> FALSE, speed |-> FALSE]]),
             s1.currentPhaseIndex)
      ELSE s1

loadGame ==
  /\ \E file \in Files : Becomes(loadGameOf(St, file))
  /\ Ran("load", FALSE)

\* an armed advance timer fires: () => advanceToNextPhase()
AdvanceFires ==
  \E t \in BagToSet(timers) :
    /\ t.kind = "advance"
    /\ Becomes(advanceToNextPhase([St EXCEPT !.timers = @ (-) SetToBag({t})]))
    /\ Ran("advance", t.stale)

\* an armed reveal timer fires: showNext
ShowNextFires ==
  \E t \in BagToSet(timers) :
    /\ t.kind = "showNext"
    /\ Becomes(showNext([St EXCEPT !.timers = @ (-) SetToBag({t})], t.doc, t.phase, t.index))
    /\ Ran("showNext", t.stale)

----------------------------------------------------------------------------
(* The phase module.  Its handlers work on m = [gs, timers, threw]: the    *)
(* gameState object, the armed timers and whether an Error was thrown.     *)

\* gameState.gameData of the phase module
PhaseDoc == "A"
gameLength == NumPhases(PhaseDoc)

\* phases of PhaseDoc that carry a summary text: the last one does, the ones
\* before it do not
HasSummary(i) == i = 2

InitialGameState ==
  [phaseIndex |-> 0, isPlaying |-> FALSE, playbackTimer |-> FALSE,
   unitAnimations |-> << >>, isAnimating |-> FALSE, messagesPlaying |-> FALSE,
   nextPhaseScheduled |-> FALSE, isDisplayingMoment |-> FALSE, isSpeaking |-> FALSE]

M == [gs |-> gameState, timers |-> timers, threw |-> FALSE]

MomentTimer ==
  [kind |-> "moment", delay |-> 0, doc |-> "", phase |-> 0, index |-> 0,
   held |-> FALSE, stale |-> FALSE]

SpeechPromise ==
  [kind |-> "speech", delay |-> 0, doc |-> "", phase |-> 0, index |-> 0,
   held |-> FALSE, stale |-> FALSE]

\* initUnits(phaseIndex) puts the units of the phase on the board at once
initUnits(m, phaseIndex) == m

\* createAnimationsForNextPhase() plans the unit animations of the current phase
createAnimationsForNextPhase(m) ==
  LET i == m.gs.phaseIndex
  IN  [m EXCEPT !.gs.unitAnimations =
         PlanAnimations(FlattenUnits(Phases(PhaseDoc)[i + 1].units),
                        PreviousKeys(FlattenUnits(Phases(PhaseDoc)[i].units), << >>),
                        << >>)]

\* updateChatWindows(currentPhase, true) of domElements/chatWindows
phaseUpdateChatWindows(m, phase) ==
  [m EXCEPT !.gs.messagesPlaying = Len(phase.messages) > 0]

\* displayFinalPhase only reports the winner
displayFinalPhase(m) == m

displayPhase(m, skipMessages) ==
  LET index == m.gs.phaseIndex
      isFirstPhase == index = 0
      m1 == IF ~skipMessages
            THEN phaseUpdateChatWindows(m, Phases(PhaseDoc)[index + 1])
            ELSE [m EXCEPT !.gs.messagesPlaying = FALSE]
  IN  IF index >= gameLength THEN displayFinalPhase(m)
      ELSE IF ~isFirstPhase /\ ~skipMessages
           THEN createAnimationsForNextPhase(m1)
           ELSE [m1 EXCEPT !.gs.messagesPlaying = FALSE]

displayInitialPhase(m) ==
  displayPhase(initUnits([m EXCEPT !.gs.phaseIndex = 0], 0), TRUE)

\* _setPhase without the validation of phaseIndex
setPhaseUnvalidated(m, phaseIndex) ==
  IF phaseIndex - m.gs.phaseIndex # 1
       THEN [initUnits([m EXCEPT !.gs.unitAnimations = << >>], phaseIndex)
               EXCEPT !.gs.phaseIndex = phaseIndex]
       ELSE LET m1 == IF m.gs.playbackTimer
                      THEN [m EXCEPT !.timers = [u \in {t \in BagToSet(@) : ~t.held} |-> @[u]],
                                     !.gs.playbackTimer = FALSE]
                      ELSE m
                m2 == [m1 EXCEPT !.gs.isAnimating = FALSE, !.gs.messagesPlaying = FALSE,
                                 !.gs.phaseIndex = @ + 1]
                m3 == IF phaseIndex = gameLength - 1 THEN displayFinalPhase(m2)
                      ELSE displayPhase(m2, FALSE)
            IN  [m3 EXCEPT !.gs.phaseIndex = phaseIndex]

setPhase(m, phaseIndex) ==
  IF phaseIndex >= gameLength \/ phaseIndex < 0 THEN [m EXCEPT !.threw = TRUE]
  ELSE IF phaseIndex - m.gs.phaseIndex # 1
       THEN [initUnits([m EXCEPT !.gs.unitAnimations = << >>], phaseIndex)
               EXCEPT !.gs.phaseIndex = phaseIndex]
       ELSE LET m1 == IF m.gs.playbackTimer
                      THEN [m EXCEPT !.timers = [u \in {t \in BagToSet(@) : ~t.held} |-> @[u]],
                                     !.gs.playbackTimer = FALSE]
                      ELSE m
                m2 == [m1 EXCEPT !.gs.isAnimating = FALSE, !.gs.messagesPlaying = FALSE,
                                 !.gs.phaseIndex = @ + 1]
                m3 == IF phaseIndex = gameLength - 1 THEN displayFinalPhase(m2)
                      ELSE displayPhase(m2, FALSE)
            IN  [m3 EXCEPT !.gs.phaseIndex = phaseIndex]

\* nextPhase(); moment says whether the current phase has a moment to show
nextPhase(m, moment) ==
  IF m.gs.isDisplayingMoment THEN m
  ELSE IF moment
       THEN LET m1 == [m EXCEPT !.gs.isDisplayingMoment = TRUE]
            IN  IF m1.gs.isPlaying
                THEN [m1 EXCEPT !.timers = @ (+) SetToBag({MomentTimer})]
                ELSE setPhase(m1, m1.gs.phaseIndex + 1)
       ELSE setPhase(m, m.gs.phaseIndex + 1)

previousPhase(m) == setPhase(m, m.gs.phaseIndex - 1)

\* advanceToNextPhase() of the phase module
phaseAdvanceToNextPhase(m, moment) ==
  LET m1 == IF ~m.gs.isPlaying THEN nextPhase(m, moment) ELSE m
      m2 == [m1 EXCEPT !.gs.nextPhaseScheduled = FALSE]
  IN  IF m1.threw THEN m1
      ELSE IF HasSummary(m2.gs.phaseIndex)
           THEN IF ~m2.gs.isSpeaking
                THEN [m2 EXCEPT !.gs.isSpeaking = TRUE,
                                !.timers = @ (+) SetToBag({SpeechPromise})]
                ELSE m2
           ELSE nextPhase(m2, moment)

\* a handler of the phase module ran; an Error it threw ends it where it was
PhaseBecomes(m, op) ==
  /\ gameState' = m.gs
  /\ timers' = m.timers
  /\ BagCardinality(m.timers) <= MaxTimers
  /\ last' = [op |-> op, index |-> gameState.phaseIndex, stale |-> FALSE,
              threw |-> m.threw]
  /\ UNCHANGED <<running, gameData, currentPhaseIndex, isPlaying, playbackSpeed,
                 playbackTimer, unitAnimations, unitMeshes, messagesPlaying, chatWindows,
                 disabled>>

SetPhaseCall ==
  /\ running = "phase"
  /\ \E phaseIndex \in -1..gameLength : PhaseBecomes(setPhase(M, phaseIndex), "_setPhase")

NextPhaseCall ==
  /\ running = "phase"
  /\ \E moment \in BOOLEAN :
       PhaseBecomes(nextPhase(M, moment),
                    IF gameState.isDisplayingMoment THEN "nextPhase: not moving"
                    ELSE IF moment THEN "nextPhase: moment" ELSE "nextPhase")

PreviousPhaseCall ==
  /\ running = "phase"
  /\ PhaseBecomes(previousPhase(M), "previousPhase")

DisplayInitialPhaseCall ==
  /\ running = "phase"
  /\ PhaseBecomes(displayInitialPhase(M), "displayInitialPhase")

PhaseAdvanceCall ==
  /\ running = "phase"
  /\ \E moment \in BOOLEAN :
       PhaseBecomes(phaseAdvanceToNextPhase(M, moment), "advanceToNextPhase")

\* the armed playback timer fires: () => advanceToNextPhase()
PhaseTimerFires ==
  \E t \in BagToSet(timers), moment \in BOOLEAN :
    /\ running = "phase"
    /\ t.kind = "advance"
    /\ PhaseBecomes(phaseAdvanceToNextPhase([M EXCEPT !.timers = @ (-) SetToBag({t})], moment),
                    "timer")

\* the moment timer fires: closeTwoPowerConversation(); _setPhase(phaseIndex + 1)
MomentFires ==
  \E t \in BagToSet(timers) :
    /\ running = "phase"
    /\ t.kind = "moment"
    /\ LET m == [M EXCEPT !.timers = @ (-) SetToBag({t}), !.gs.isDisplayingMoment = FALSE]
       IN  PhaseBecomes(setPhase(m, m.gs.phaseIndex + 1), "moment")

\* speakSummary settles: if (gameState.isPlaying) nextPhase()
SpeechEnds ==
  \E t \in BagToSet(timers), moment \in BOOLEAN :
    /\ running = "phase"
    /\ t.kind = "speech"
    /\ LET m == [M EXCEPT !.timers = @ (-) SetToBag({t}), !.gs.isSpeaking = FALSE]
       IN  PhaseBecomes(IF m.gs.isPlaying THEN nextPhase(m, moment) ELSE m, "speech")

\* the scheduling step of the render loop as the phase tests write it: clear
\* the existing timeout, then arm the advance
SchedulePlayback ==
  /\ running = "phase"
  /\ gameState.isPlaying /\ ~gameState.messagesPlaying
  /\ gameState.unitAnimations = << >>
  /\ PhaseBecomes([M EXCEPT !.timers = [u \in {t \in BagToSet(@) : ~t.held} |-> @[u]]
                                        (+) SetToBag({AdvanceTimer(playbackSpeed)}),
                            !.gs.playbackTimer = TRUE], "schedule")

\* play / pause of the phase module's session
PhaseTogglePlay ==
  /\ running = "phase"
  /\ PhaseBecomes(
               IF ~gameState.isPlaying THEN [M EXCEPT !.gs.isPlaying = TRUE]
               ELSE [M EXCEPT !.gs.isPlaying = FALSE, !.gs.playbackTimer = FALSE,
                              !.gs.unitAnimations = << >>, !.gs.messagesPlaying = FALSE,
                              !.timers = [u \in {t \in BagToSet(@) : ~t.held} |-> @[u]]],
               "togglePlay")

\* the message sequencer and the animation runner report completion
PresentationDone ==
  /\ running = "phase"
  /\ gameState.messagesPlaying \/ gameState.unitAnimations # << >>
  /\ PhaseBecomes([M EXCEPT !.gs.messagesPlaying = FALSE, !.gs.unitAnimations = << >>],
                  "presented")

\* the user closes the two-power conversation
CloseConversation ==
  /\ running = "phase"
  /\ gameState.isDisplayingMoment
  /\ PhaseBecomes([M EXCEPT !.gs.isDisplayingMoment = FALSE], "close")

\* the first replay of a session is chosen
loadFirstGame ==
  /\ gameData = "null"
  /\ loadGame

Init ==
  /\ running \in {"script", "phase"}
  /\ gameState = InitialGameState
  /\ gameData = "null"
  /\ currentPhaseIndex = 0
  /\ isPlaying = FALSE
  /\ playbackSpeed = 500
  /\ playbackTimer = FALSE
  /\ unitAnimations = << >>
  /\ unitMeshes = 0
  /\ messagesPlaying = FALSE
  /\ chatWindows = EmptyWindows
  /\ disabled = [prev |-> TRUE, next |-> TRUE, play |-> TRUE, speed |-> TRUE]
  /\ timers = EmptyBag
  /\ last = [op |-> "init", index |-> 0, stale |-> FALSE, threw |-> FALSE]

Next ==
  \/ animate
  \/ Clock
  \/ togglePlayback
  \/ prevBtnClick
  \/ nextBtnClick
  \/ speedSelectorChange
  \/ loadFirstGame
  \/ AdvanceFires
  \/ ShowNextFires
  \/ SetPhaseCall
  \/ NextPhaseCall
  \/ PreviousPhaseCall
  \/ DisplayInitialPhaseCall
  \/ PhaseAdvanceCall
  \/ PhaseTimerFires
  \/ MomentFires
  \/ SpeechEnds
  \/ SchedulePlayback
  \/ PhaseTogglePlay
  \/ PresentationDone
  \/ CloseConversation

\* both programs, each session with one replay
Spec == Init /\ [][Next]_vars

\* the user picks another replay file while a session is running
switchReplay ==
  /\ gameData # "null"
  /\ \E file \in Replays : Becomes(loadGameOf(St, file))
  /\ Ran("load", FALSE)

\* a session in which the user loads another replay at any moment
NextReload ==
  \/ Next
  \/ switchReplay

SpecReload == Init /\ [][NextReload]_vars

\* the user picks a file that holds no replay while a session is running
loadMalformedFile ==
  /\ gameData # "null"
  /\ \E file \in Files \ Replays : Becomes(loadGameOf(St, file))
  /\ Ran("load", FALSE)

\* one session of the script
NextSession ==
  \/ animate
  \/ Clock
  \/ togglePlayback
  \/ prevBtnClick
  \/ nextBtnClick
  \/ speedSelectorChange
  \/ loadFirstGame
  \/ AdvanceFires
  \/ ShowNextFires

InitSession == Init /\ running = "script"

SpecSession == InitSession /\ [][NextSession]_vars

\* one session of the script in which loads of malformed files are attempted
NextFailedLoad ==
  \/ NextSession
  \/ loadMalformedFile

SpecFailedLoad == InitSession /\ [][NextFailedLoad]_vars

----------------------------------------------------------------------------
(* Uninterrupted playback: a replay is loaded, Play is clicked once and the *)
(* user touches nothing but the speed; timers fire and render ticks run.    *)

PlayedReplays == {"A", "B", "D"}

loadPlayedGame ==
  /\ gameData = "null"
  /\ \E file \in PlayedReplays : Becomes(loadGameOf(St, file))
  /\ Ran("load", FALSE)

startPlayback == ~isPlaying /\ togglePlayback

NextPlayback ==
  \/ loadPlayedGame
  \/ startPlayback
  \/ speedSelectorChange
  \/ animate
  \/ Clock
  \/ AdvanceFires
  \/ ShowNextFires

SpecPlayback == InitSession /\ [][NextPlayback]_vars

----------------------------------------------------------------------------
(* Sessions with nothing to advance to: the replay has one phase, or a     *)
(* document without phases is loaded over a replay.                        *)

ShortReplays == {"A", "S"}

loadShortGame ==
  /\ gameData = "null"
  /\ \E file \in ShortReplays : Becomes(loadGameOf(St, file))
  /\ Ran("load", FALSE)

\* a document with an empty phases list or without one is picked
loadEmptyDocument ==
  /\ gameData # "null"
  /\ \E file \in {"E", "N"} : Becomes(loadGameOf(St, file))
  /\ Ran("load", FALSE)

NextShort ==
  \/ loadShortGame
  \/ loadEmptyDocument
  \/ animate
  \/ Clock
  \/ togglePlayback
  \/ prevBtnClick
  \/ nextBtnClick
  \/ AdvanceFires
  \/ ShowNextFires

SpecShort == InitSession /\ [][NextShort]_vars

----------------------------------------------------------------------------
(* The planner on its own: animateUnitsForPhase applied to a pair of phases. *)
(* gameState holds the two arguments of the call.                           *)

EnglandUnits == {U("F", "LON"), U("F", "NTH"), U("F", "ECH"), U("A", "YOR")}
FranceUnits == {U("A", "PAR"), U("F", "BRE")}

\* the unit arrays of at most n units, no two in one province
UnitArrays(S, n) ==
  {a \in UNION {[1..k -> S] : k \in 0..n} : \A i, j \in DOMAIN a : a[i] = a[j] => i = j}

\* phase.state.units
UnitMaps ==
  {<< <<"ENGLAND", e>>, <<"FRANCE", f>> >> :
     e \in UnitArrays(EnglandUnits, MaxUnits), f \in UnitArrays(FranceUnits, 1)}

InitPlanner ==
  /\ running = "planner"
  /\ gameState \in [currentPhase : {[units |-> u] : u \in UnitMaps},
                     previousPhase : {[units |-> u] : u \in UnitMaps}]
  /\ gameData = "null"
  /\ currentPhaseIndex = 0
  /\ isPlaying = FALSE
  /\ playbackSpeed = 500
  /\ playbackTimer = FALSE
  /\ unitAnimations = << >>
  /\ unitMeshes = 0
  /\ messagesPlaying = FALSE
  /\ chatWindows = EmptyWindows
  /\ disabled = [prev |-> TRUE, next |-> TRUE, play |-> TRUE, speed |-> TRUE]
  /\ timers = EmptyBag
  /\ last = [op |-> "init", index |-> 0, stale |-> FALSE, threw |-> FALSE]

\* animateUnitsForPhase(currentPhase, previousPhase)
PlannerCall ==
  /\ running = "planner"
  /\ last.op = "init"
  /\ LET s == animateUnitsForPhase(St, gameState.currentPhase, gameState.previousPhase)
     IN  /\ unitAnimations' = s.unitAnimations
         /\ unitMeshes' = s.unitMeshes
  /\ last' = [last EXCEPT !.op = "animateUnitsForPhase"]
  /\ UNCHANGED <<running, gameState, gameData, currentPhaseIndex, isPlaying, playbackSpeed,
                 playbackTimer, messagesPlaying, chatWindows, disabled, timers>>

NextPlanner == PlannerCall

SpecPlanner == InitPlanner /\ [][NextPlanner]_vars

\* unit strings of a phase, some of them not of the form "<A|F> <location>":
\* "X LON" names no unit type, "ANTH" has no blank, "A " has no location
MixedEnglandUnits ==
  {U("F", "LON"), U("F", "NTH"), U("X", "LON"), <<"A", "", "NTH">>, U("A", "")}

MixedUnitMaps ==
  {<< <<"ENGLAND", e>>, <<"FRANCE", f>> >> :
     e \in UnitArrays(MixedEnglandUnits, MaxUnits), f \in UnitArrays(FranceUnits, 1)}

InitMalformed ==
  /\ running = "planner"
  /\ gameState \in [currentPhase : {[units |-> u] : u \in MixedUnitMaps},
                     previousPhase : {[units |-> u] : u \in MixedUnitMaps}]
  /\ gameData = "null"
  /\ currentPhaseIndex = 0
  /\ isPlaying = FALSE
  /\ playbackSpeed = 500
  /\ playbackTimer = FALSE
  /\ unitAnimations = << >>
  /\ unitMeshes = 0
  /\ messagesPlaying = FALSE
  /\ chatWindows = EmptyWindows
  /\ disabled = [prev |-> TRUE, next |-> TRUE, play |-> TRUE, speed |-> TRUE]
  /\ timers = EmptyBag
  /\ last = [op |-> "init", index |-> 0, stale |-> FALSE, threw |-> FALSE]

\* the planner applied to phases that hold malformed unit strings
SpecMalformed == InitMalformed /\ [][NextPlanner]_vars

----------------------------------------------------------------------------
(* The board: supply-center markers, leaderboard and province ownership as  *)
(* displayPhase refreshes them.  gameState holds the displayed phase, the   *)
(* markers before and after the call, the leaderboard and the provinces.    *)

\* powerColors of updateSupplyCenterOwnership
PowerColors ==
  [AUSTRIA |-> "c40000", ENGLAND |-> "00008B", FRANCE |-> "0fa0d0", GERMANY |-> "444444",
   ITALY |-> "008000", RUSSIA |-> "cccccc", TURKEY |-> "e0c846"]

\* 0xFFD700, the colour a marker is created with
NeutralColor == "FFD700"

\* String.prototype.toUpperCase on the strings of the replays
toUpperCase(s) ==
  CASE s = "par" -> "PAR"
    [] s = "bur" -> "BUR"
    [] s = "stp/sc" -> "STP/SC"
    [] OTHER -> s

\* location.toUpperCase().replace('/', '_').split('_')[0]
BaseOf(location) ==
  LET up == toUpperCase(location)
  IN  CASE up = "STP/SC" -> "STP"
        [] OTHER -> up

\* ownershipMap: a province listed twice keeps the power written last
ownershipMap(centers) ==
  LET es == FlattenUnits(centers)
      keys == {toUpperCase(es[i].unitStr) : i \in 1..Len(es)}
  IN  [prov \in keys |->
         LET i == CHOOSE i \in 1..Len(es) :
                    /\ toUpperCase(es[i].unitStr) = prov
                    /\ \A j \in 1..Len(es) : toUpperCase(es[j].unitStr) = prov => j <= i
         IN  toUpperCase(es[i].power)]

\* updateSupplyCenterOwnership leaving a marker nobody owns as it was
updateSupplyCenterOwnershipKeep(markers, centers) ==
  LET om == ownershipMap(centers)
  IN  [prov \in DOMAIN markers |->
         IF prov \in DOMAIN om
         THEN [color |-> IF om[prov] \in DOMAIN PowerColors THEN PowerColors[om[prov]]
                         ELSE NeutralColor,
               pulse |-> TRUE]
         ELSE markers[prov]]

\* updateSupplyCenterOwnership(centers) for a centers map; markers are the
\* supply-center objects of unitMeshes by province
updateSupplyCenterOwnership(markers, centers) ==
  LET om == ownershipMap(centers)
  IN  [prov \in DOMAIN markers |->
         IF prov \in DOMAIN om
         THEN [color |-> IF om[prov] \in DOMAIN PowerColors THEN PowerColors[om[prov]]
                         ELSE NeutralColor,
               pulse |-> TRUE]
         ELSE [color |-> NeutralColor, pulse |-> FALSE]]

\* Object.keys of a map given as a sequence of <<key, list>>
Keys(map) == [i \in 1..Len(map) |-> map[i][1]]

\* centerCounts[power] || 0, unitCounts[power] || 0
CountOf(map, power) ==
  IF \E i \in 1..Len(map) : map[i][1] = power
  THEN Len(map[CHOOSE i \in 1..Len(map) : map[i][1] = power][2])
  ELSE 0

\* new Set([...Object.keys(centerCounts), ...Object.keys(unitCounts)])
allPowers(phase) ==
  LET ck == Keys(phase.centers)
  IN  ck \o SelectSeq(Keys(phase.units), LAMBDA p : \A i \in 1..Len(ck) : ck[i] # p)

\* sort with (a, b) => (centerCounts[b] || 0) - (centerCounts[a] || 0), in the
\* wrong direction
RECURSIVE InsertByCentersAscending(_, _, _)
InsertByCentersAscending(sorted, p, centers) ==
  IF sorted = << >> THEN <<p>>
  ELSE IF CountOf(centers, sorted[Len(sorted)]) <= CountOf(centers, p) THEN Append(sorted, p)
  ELSE Append(InsertByCentersAscending(SubSeq(sorted, 1, Len(sorted) - 1), p, centers),
              sorted[Len(sorted)])

\* sort with (a, b) => (centerCounts[b] || 0) - (centerCounts[a] || 0) (stable)
RECURSIVE InsertByCenters(_, _, _)
InsertByCenters(sorted, p, centers) ==
  IF sorted = << >> THEN <<p>>
  ELSE IF CountOf(centers, sorted[Len(sorted)]) >= CountOf(centers, p) THEN Append(sorted, p)
  ELSE Append(InsertByCenters(SubSeq(sorted, 1, Len(sorted) - 1), p, centers),
              sorted[Len(sorted)])

RECURSIVE sortedPowers(_, _)
sortedPowers(ps, centers) ==
  IF ps = << >> THEN << >>
  ELSE InsertByCenters(sortedPowers(SubSeq(ps, 1, Len(ps) - 1), centers), ps[Len(ps)], centers)

\* updateLeaderboard(phase): the rows written to the leaderboard
updateLeaderboard(phase) ==
  LET sp == sortedPowers(allPowers(phase), phase.centers)
  IN  [i \in 1..Len(sp) |->
         [power |-> sp[i], centers |-> CountOf(phase.centers, sp[i]),
          units |-> CountOf(phase.units, sp[i])]]

\* getPowerHexColor(power): the same table, '#b19b69' for any other power
getPowerHexColor(power) ==
  IF power \in DOMAIN PowerColors THEN PowerColors[power] ELSE "b19b69"

\* the forEach bodies of updateMapOwnership: the owner of each unit's province
RECURSIVE SetOwners(_, _)
SetOwners(provinces, es) ==
  IF es = << >> THEN provinces
  ELSE LET base == BaseOf(es[1].location)
       IN  IF es[1].location = "" \/ es[1].power = "" \/ base \notin DOMAIN provinces
           THEN SetOwners(provinces, Tail(es))
           ELSE SetOwners([provinces EXCEPT ![base].owner = es[1].power], Tail(es))

\* updateMapOwnership(currentPhase); unitList is currentPhase.units, empty
\* when the phase has no such array
updateMapOwnership(provinces, currentPhase) ==
  LET cleared == [k \in DOMAIN provinces |-> [provinces[k] EXCEPT !.owner = "none"]]
      fromState == SelectSeq(FlattenUnits(currentPhase.units), LAMBDA e : Matches(e.unitStr))
      owned == IF Len(currentPhase.unitList) > 0
               THEN SetOwners(cleared, currentPhase.unitList)
               ELSE IF Len(currentPhase.units) > 0
               THEN SetOwners(cleared, [i \in 1..Len(fromState) |->
                                          [power |-> fromState[i].power,
                                           location |-> fromState[i].unitStr[3]]])
               ELSE cleared
  IN  [k \in DOMAIN owned |->
         IF owned[k].owner # "none" /\ owned[k].type # "WATER"
         THEN [owned[k] EXCEPT !.color = getPowerHexColor(owned[k].owner)]
         ELSE owned[k]]

\* the supply centers that have a marker
MarkedProvinces == {"PAR", "MAR", "LON"}

\* gameState.boardState.provinces before the first phase is shown
InitialProvinces ==
  [k \in {"PAR", "BUR", "STP", "NTH"} |->
     [owner |-> "none", color |-> "map", type |-> IF k = "NTH" THEN "WATER" ELSE "LAND"]]

\* phase.state.centers
CentersMaps ==
  {<< <<"FRANCE", f>> >> : f \in {<< >>, <<"PAR", "MAR">>}}
  \cup {<< <<"ENGLAND", e>>, <<"FRANCE", f>> >> :
          e \in {<< >>, <<"LON">>, <<"LON", "MAR">>}, f \in {<< >>, <<"par">>, <<"PAR">>}}
  \cup {<< <<"ENGLAND", <<"LON">> >>, <<"FRANCE", <<"PAR", "MAR">> >> >>}

\* phase.state.units
BoardUnitMaps ==
  {<< <<"FRANCE", f>> >> : f \in {<< >>, << U("A", "PAR") >>}}
  \cup {<< <<"FRANCE", f>>, <<"ENGLAND", e>> >> :
          f \in {<< U("A", "BUR") >>, << U("A", "PAR"), U("F", "STP/SC") >>},
          e \in {<< >>, << U("F", "NTH") >>}}

\* the phases shown on the board
BoardPhases ==
  [centers : CentersMaps, units : BoardUnitMaps,
   unitList : {<< >>, << [power |-> "FRANCE", location |-> "bur"] >>}]

InitBoard ==
  /\ running = "board"
  /\ gameState = [phase |-> [centers |-> << >>, units |-> << >>, unitList |-> << >>],
                  before |-> [prov \in MarkedProvinces |->
                                [color |-> NeutralColor, pulse |-> FALSE]],
                  markers |-> [prov \in MarkedProvinces |->
                                 [color |-> NeutralColor, pulse |-> FALSE]],
                  leaderboard |-> << >>,
                  provinces |-> InitialProvinces]
  /\ gameData = "null"
  /\ currentPhaseIndex = 0
  /\ isPlaying = FALSE
  /\ playbackSpeed = 500
  /\ playbackTimer = FALSE
  /\ unitAnimations = << >>
  /\ unitMeshes = 0
  /\ messagesPlaying = FALSE
  /\ chatWindows = EmptyWindows
  /\ disabled = [prev |-> TRUE, next |-> TRUE, play |-> TRUE, speed |-> TRUE]
  /\ timers = EmptyBag
  /\ last = [op |-> "init", index |-> 0, stale |-> FALSE, threw |-> FALSE]

\* the refresh of the board when a phase is displayed
ShowBoardPhase ==
  /\ running = "board"
  /\ \E phase \in BoardPhases :
       gameState' = [phase |-> phase,
                     before |-> gameState.markers,
                     markers |-> updateSupplyCenterOwnership(gameState.markers, phase.centers),
                     leaderboard |-> updateLeaderboard(phase),
                     provinces |-> updateMapOwnership(gameState.provinces, phase)]
  /\ last' = [last EXCEPT !.op = "displayPhase"]
  /\ UNCHANGED <<running, gameData, currentPhaseIndex, isPlaying, playbackSpeed,
                 playbackTimer, unitAnimations, unitMeshes, messagesPlaying, chatWindows,
                 disabled, timers>>

NextBoard == ShowBoardPhase

SpecBoard == InitBoard /\ [][NextBoard]_vars

----------------------------------------------------------------------------
(* The pulsing of supply-center markers: updateSupplyCenterOwnership called *)
(* for one centers map after the other.  gameState holds the markers and    *)
(* scene.userData.animatedObjects.                                          *)

\* the supply-center objects in the order of unitMeshes
MarkerOrder == <<"PAR", "MAR", "LON">>

\* the pushes of updateSupplyCenterOwnership on scene.userData.animatedObjects:
\* a marker with an owner and without a pulseAnimation is pushed
RECURSIVE registerPulses(_, _, _, _)
registerPulses(markers, om, order, animatedObjects) ==
  IF order = << >> THEN animatedObjects
  ELSE registerPulses(markers, om, Tail(order),
                      IF order[1] \in DOMAIN om /\ ~markers[order[1]].pulse
                      THEN Append(animatedObjects, order[1])
                      ELSE animatedObjects)

InitPulse ==
  /\ running = "pulse"
  /\ gameState = [markers |-> [prov \in MarkedProvinces |->
                                 [color |-> NeutralColor, pulse |-> FALSE]],
                  animatedObjects |-> << >>]
  /\ gameData = "null"
  /\ currentPhaseIndex = 0
  /\ isPlaying = FALSE
  /\ playbackSpeed = 500
  /\ playbackTimer = FALSE
  /\ unitAnimations = << >>
  /\ unitMeshes = 0
  /\ messagesPlaying = FALSE
  /\ chatWindows = EmptyWindows
  /\ disabled = [prev |-> TRUE, next |-> TRUE, play |-> TRUE, speed |-> TRUE]
  /\ timers = EmptyBag
  /\ last = [op |-> "init", index |-> 0, stale |-> FALSE, threw |-> FALSE]

\* updateSupplyCenterOwnership(centers)
UpdateOwnership ==
  /\ running = "pulse"
  /\ \E centers \in CentersMaps :
       LET registered == registerPulses(gameState.markers, ownershipMap(centers),
                                        MarkerOrder, gameState.animatedObjects)
       IN  /\ Len(registered) <= MaxRegistered
           /\ gameState' =
                [markers |-> updateSupplyCenterOwnership(gameState.markers, centers),
                 animatedObjects |-> registered]
  /\ last' = [last EXCEPT !.op = "updateSupplyCenterOwnership"]
  /\ UNCHANGED <<running, gameData, currentPhaseIndex, isPlaying, playbackSpeed,
                 playbackTimer, unitAnimations, unitMeshes, messagesPlaying, chatWindows,
                 disabled, timers>>

NextPulse == UpdateOwnership

SpecPulse == InitPulse /\ [][NextPulse]_vars

----------------------------------------------------------------------------
(* The territory ownership map: buildOwnershipMap applied to the centers    *)
(* and units of a phase.  gameState holds the two arguments and the result. *)

\* match[2].toUpperCase().split('/')[0] on an upper-cased location
splitSlash(s) ==
  CASE s = "STP/SC" -> "STP"
    [] OTHER -> s

\* the second loop of buildOwnershipMap: a unit's province is added when the
\* map has no entry for it
RECURSIVE addUnitTerritories(_, _)
addUnitTerritories(om, es) ==
  IF es = << >> THEN om
  ELSE LET e == es[1]
           location == splitSlash(toUpperCase(e.unitStr[3]))
       IN  IF Matches(e.unitStr) /\ location \notin DOMAIN om
           THEN addUnitTerritories(
                  [k \in DOMAIN om \cup {location} |->
                     IF k = location THEN toUpperCase(e.power) ELSE om[k]],
                  Tail(es))
           ELSE addUnitTerritories(om, Tail(es))

\* buildOwnershipMap in which a unit's province is written whether or not the
\* map has an entry for it
buildOwnershipMapUnitsLast(centers, units) ==
  LET es == SelectSeq(FlattenUnits(units), LAMBDA e : Matches(e.unitStr))
      om == ownershipMap(centers)
      locs == {splitSlash(toUpperCase(es[i].unitStr[3])) : i \in 1..Len(es)}
  IN  [k \in DOMAIN om \cup locs |->
         IF k \in locs
         THEN toUpperCase(es[CHOOSE i \in 1..Len(es) :
                               /\ splitSlash(toUpperCase(es[i].unitStr[3])) = k
                               /\ \A j \in 1..Len(es) :
                                    splitSlash(toUpperCase(es[j].unitStr[3])) = k => j <= i
                             ].power)
         ELSE om[k]]

buildOwnershipMap(centers, units) ==
  addUnitTerritories(ownershipMap(centers), FlattenUnits(units))

\* phase.state.units handed to buildOwnershipMap
TerritoryUnitMaps ==
  {<< <<"FRANCE", f>>, <<"ENGLAND", e>> >> :
     f \in {<< >>, << U("A", "BUR") >>, << U("A", "PAR"), U("F", "STP/SC") >>,
            << U("X", "BUR") >>},
     e \in {<< >>, << U("A", "PAR") >>, << U("A", "bur") >>, << U("F", "stp/sc") >>}}

InitTerritory ==
  /\ running = "territory"
  /\ gameState \in [centers : CentersMaps, units : TerritoryUnitMaps, ownershipMap : {<< >>}]
  /\ gameData = "null"
  /\ currentPhaseIndex = 0
  /\ isPlaying = FALSE
  /\ playbackSpeed = 500
  /\ playbackTimer = FALSE
  /\ unitAnimations = << >>
  /\ unitMeshes = 0
  /\ messagesPlaying = FALSE
  /\ chatWindows = EmptyWindows
  /\ disabled = [prev |-> TRUE, next |-> TRUE, play |-> TRUE, speed |-> TRUE]
  /\ timers = EmptyBag
  /\ last = [op |-> "init", index |-> 0, stale |-> FALSE, threw |-> FALSE]

\* const ownershipMap = buildOwnershipMap(centers, units)
BuildOwnershipMapCall ==
  /\ running = "territory"
  /\ last.op = "init"
  /\ gameState' = [gameState EXCEPT
                     !.ownershipMap = buildOwnershipMap(gameState.centers, gameState.units)]
  /\ last' = [last EXCEPT !.op = "buildOwnershipMap"]
  /\ UNCHANGED <<running, gameData, currentPhaseIndex, isPlaying, playbackSpeed,
                 playbackTimer, unitAnimations, unitMeshes, messagesPlaying, chatWindows,
                 disabled, timers>>

NextTerritory == BuildOwnershipMapCall

SpecTerritory == InitTerritory /\ [][NextTerritory]_vars

----------------------------------------------------------------------------
(* Coordinates: getProvincePosition applied to a location string.  gameState *)
(* holds the argument, coordinateData and the results of two calls.          *)

\* the location strings handed to getProvincePosition
Locations == {"STP/SC", "stp/sc", "STP", "PAR", "par", "MUN"}

\* str.charCodeAt(i) for the characters of a location string
CharCodes(str) ==
  CASE str = "STP/SC" -> <<83, 84, 80, 47, 83, 67>>
    [] str = "stp/sc" -> <<115, 116, 112, 47, 115, 99>>
    [] str = "STP" -> <<83, 84, 80>>
    [] str = "PAR" -> <<80, 65, 82>>
    [] str = "par" -> <<112, 97, 114>>
    [] str = "MUN" -> <<77, 85, 78>>

\* String.prototype.replace('/', '_') on the upper-cased locations
replaceSlash(s) ==
  CASE s = "STP/SC" -> "STP_SC"
    [] OTHER -> s

\* normalized.split('_')[0]
splitFirst(s) ==
  CASE s = "STP_SC" -> "STP"
    [] OTHER -> s

\* a 32-bit integer as its two 16-bit halves
Halves(hi, lo) == [hi |-> hi, lo |-> lo]

\* hash = (hash << 5) - hash + c; hash |= 0: 31 * hash + c modulo 2^32
HashStep(h, c) ==
  LET low == 31 * h.lo + c
  IN  Halves((31 * h.hi + low \div 65536) % 65536, low % 65536)

RECURSIVE HashOf(_, _)
HashOf(codes, h) ==
  IF codes = << >> THEN h ELSE HashOf(Tail(codes), HashStep(h, codes[1]))

\* the signed value of the 32-bit integer
Signed(h) == IF h.hi >= 32768 THEN (h.hi - 65536) * 65536 + h.lo ELSE h.hi * 65536 + h.lo

\* the % of JavaScript: the remainder has the sign of the dividend
Rem(a, b) == IF a >= 0 THEN a % b ELSE -((-a) % b)

\* hash >> 8
ShiftRight8(a) == IF a >= 0 THEN a \div 256 ELSE -(((-a) + 255) \div 256)

hashStringToPosition(str) ==
  LET hash == Signed(HashOf(CharCodes(str), Halves(0, 0)))
  IN  [x |-> Rem(hash, 800) - 400, y |-> 0, z |-> Rem(ShiftRight8(hash), 800) - 400]

\* getProvincePosition(loc); coordinateData.present is FALSE for null or for a
\* document without provinces.  The first branch builds an object with x, y
\* and z; the second returns the label object, which has x and y only
getProvincePosition(coordinateData, loc) ==
  LET normalized == replaceSlash(toUpperCase(loc))
      base == splitFirst(normalized)
      provinces == coordinateData.provinces
      pos == hashStringToPosition(loc)
  IN  IF coordinateData.present /\ normalized \in DOMAIN provinces
      THEN [x |-> provinces[normalized].label.x, y |-> 10,
            z |-> provinces[normalized].label.y]
      ELSE IF coordinateData.present /\ base \in DOMAIN provinces
      THEN provinces[base].label
      ELSE [x |-> pos.x, y |-> pos.y, z |-> pos.z + 100]

\* the label of a province in the coordinate file
LabelOf(k) ==
  CASE k = "STP" -> [x |-> 1010, y |-> 250]
    [] k = "STP_SC" -> [x |-> 1030, y |-> 330]
    [] k = "PAR" -> [x |-> 420, y |-> 610]

\* coordinateData: null, or a document with some of the provinces
CoordinateTables ==
  {[present |-> FALSE, provinces |-> << >>]}
  \cup {[present |-> TRUE, provinces |-> [k \in S |-> [label |-> LabelOf(k)]]] :
          S \in SUBSET {"STP", "STP_SC", "PAR"}}

InitCoords ==
  /\ running = "coords"
  /\ gameState \in [loc : Locations, coordinateData : CoordinateTables,
                     pos : {<< >>}, again : {<< >>}]
  /\ gameData = "null"
  /\ currentPhaseIndex = 0
  /\ isPlaying = FALSE
  /\ playbackSpeed = 500
  /\ playbackTimer = FALSE
  /\ unitAnimations = << >>
  /\ unitMeshes = 0
  /\ messagesPlaying = FALSE
  /\ chatWindows = EmptyWindows
  /\ disabled = [prev |-> TRUE, next |-> TRUE, play |-> TRUE, speed |-> TRUE]
  /\ timers = EmptyBag
  /\ last = [op |-> "init", index |-> 0, stale |-> FALSE, threw |-> FALSE]

\* const pos = getProvincePosition(loc)
GetPosition ==
  /\ running = "coords"
  /\ last.op = "init"
  /\ gameState' = [gameState EXCEPT
                     !.pos = getProvincePosition(gameState.coordinateData, gameState.loc)]
  /\ last' = [last EXCEPT !.op = "getProvincePosition"]
  /\ UNCHANGED <<running, gameData, currentPhaseIndex, isPlaying, playbackSpeed,
                 playbackTimer, unitAnimations, unitMeshes, messagesPlaying, chatWindows,
                 disabled, timers>>

\* a second call with the same string and the same coordinateData
GetPositionAgain ==
  /\ running = "coords"
  /\ last.op = "getProvincePosition"
  /\ gameState' = [gameState EXCEPT
                     !.again = getProvincePosition(gameState.coordinateData, gameState.loc)]
  /\ last' = [last EXCEPT !.op = "getProvincePosition again"]
  /\ UNCHANGED <<running, gameData, currentPhaseIndex, isPlaying, playbackSpeed,
                 playbackTimer, unitAnimations, unitMeshes, messagesPlaying, chatWindows,
                 disabled, timers>>

NextCoords == GetPosition \/ GetPositionAgain

SpecCoords == InitCoords /\ [][NextCoords]_vars

----------------------------------------------------------------------------
(* Properties. *)

Script == running = "script"

AdvanceTimers == {t \in BagToSet(timers) : t.kind = "advance"}
NumAdvanceTimers == SumCopies(AdvanceTimers, timers)

\* C1: at most one armed, not yet fired advance timer exists in any state of
\* the script.
C1_AtMostOneAdvanceTimer == Script => NumAdvanceTimers <= 1

\* C2: no advance timer fires while playback is paused (a fired advance leaves
\* isPlaying as it found it).
C2_NoAdvanceWhilePaused == Script => ~(last.op = "advance" /\ ~isPlaying)

\* every message of phase i of document d that qualifies for the viewpoint and
\* has a chat window is in its bucket
AllRevealed(d, i) ==
  LET rel == relevantMessages(Phases(d)[i + 1])
  IN  \A k \in 1..Len(rel) :
        TargetPower(rel[k]) \in DOMAIN chatWindows
          => MsgId(rel[k]) \in chatWindows[TargetPower(rel[k])].seenMessages

\* a step that builds the unit animations of the displayed phase
AnimationsCreated ==
  /\ unitAnimations' # unitAnimations
  /\ unitAnimations' # << >>
  /\ \A i \in 1..Len(unitAnimations') : unitAnimations'[i].elapsed = 0

\* C3: whenever the script creates the unit animations of the displayed phase,
\* every qualifying message of that phase has been revealed.
C3_MessagesBeforeUnits ==
  [][(Script /\ AnimationsCreated) => AllRevealed(gameData, currentPhaseIndex)']_vars

\* C4: with a replay of at least one phase loaded, the phase index is a valid
\* index of its phase list, in the script and in the phase module.
C4_PhaseIndexInRange ==
  /\ (Script /\ HasPhases(gameData) /\ NumPhases(gameData) >= 1)
       => (0 <= currentPhaseIndex /\ currentPhaseIndex < NumPhases(gameData))
  /\ (~Script) => (0 <= gameState.phaseIndex /\ gameState.phaseIndex < gameLength)

C4_Witness ==
  /\ Script /\ last.op = "advance" /\ gameData = "B"
  /\ last.index = NumPhases(gameData) - 1 /\ currentPhaseIndex = 0

LoopLaw(i, n) == IF i = n - 1 THEN 0 ELSE i + 1

\* C5: an advance from the last phase index ends at index 0 and from any other
\* index i at i + 1: the timer driven advance of the script and nextPhase of
\* the phase module.
C5_LoopLaw ==
  /\ (Script /\ last.op = "advance" /\ NumPhases(gameData) >= 1)
       => currentPhaseIndex = LoopLaw(last.index, NumPhases(gameData))
  /\ (~Script /\ last.op = "nextPhase")
       => gameState.phaseIndex = LoopLaw(last.index, gameLength)

MsgKey(msg) == <<msg.sender, msg.recipient, msg.time_sent, msg.message>>

\* C6: no chat bucket holds two entries with the same identity key (sender,
\* recipient, time_sent, message).
C6_NoDuplicateEntries ==
  Script => \A b \in DOMAIN chatWindows :
              LET c == chatWindows[b].messagesContainer
              IN  \A i, j \in 1..Len(c) : MsgKey(c[i].msg) = MsgKey(c[j].msg) => i = j

\* two reveal chains of the second phase of A overlap: each has offered "Hi"
\* to the GLOBAL bucket, which holds it once
C6_Witness ==
  /\ Script /\ gameData = "A" /\ currentPhaseIndex = 1
  /\ CopiesIn(ShowNextTimer("A", 2, 1), timers) = 2
  /\ Len(chatWindows["GLOBAL"].messagesContainer) = 1
  /\ chatWindows["GLOBAL"].messagesContainer[1].msg = Msg("FRANCE", "GLOBAL", 100, <<"Hi">>)

\* C7: after a manual previous / next step of the script that changed the
\* phase, and after a _setPhase(i) of the phase module, the index is i and no
\* unit animation is left.
C7_JumpLeavesNoAnimations ==
  /\ (Script /\ last.op \in {"prev", "next"} /\ currentPhaseIndex # last.index)
       => unitAnimations = << >>
  /\ (~Script /\ last.op = "_setPhase" /\ ~last.threw)
       => gameState.unitAnimations = << >>

\* C8: a reveal callback that fires right after togglePlayback has paused the
\* playback adds no message to any bucket.
C8_PauseStopsReveal ==
  [][(Script /\ last.op = "togglePlayback" /\ ~isPlaying /\ last'.op = "showNext")
       => chatWindows' = chatWindows]_vars

\* C9: the firing of a timer armed before the last replay load changes neither
\* the phase index, nor the chat buckets, nor the animation list.
C9_StaleTimerIsNoOp ==
  [][(Script /\ last'.op \in {"advance", "showNext"} /\ last'.stale)
       => UNCHANGED <<currentPhaseIndex, chatWindows, unitAnimations>>]_vars

\* C10: after a speed change while playing, a pending advance is the only one
\* and is armed with the new speed.
C10_SpeedChangeRearms ==
  (Script /\ last.op = "speed" /\ isPlaying /\ NumAdvanceTimers >= 1)
    => (NumAdvanceTimers = 1 /\ \A t \in AdvanceTimers : t.delay = playbackSpeed)

\* C11: a _setPhase with an index below 0 or at or beyond the number of phases
\* throws and leaves the gameState object and the armed timers as they were;
\* displayPhaseWithAnimation with such an index leaves the script's variables
\* as they were.
C11_OutOfRangeRejected ==
  /\ (~Script) =>
       \A i \in {-1, gameLength, gameLength + 1} :
         LET m == setPhase(M, i)
         IN  m.threw /\ m.gs = gameState /\ m.timers = timers
  /\ (Script /\ gameData # "null") =>
       \A i \in {-1, NumPhases(gameData), NumPhases(gameData) + 1} :
         displayPhaseWithAnimation(St, i) = St

\* an out-of-range _setPhase has thrown while playback was on and unit
\* animations were running
C11_Witness ==
  /\ ~Script /\ last.op = "_setPhase" /\ last.threw
  /\ gameState.isPlaying /\ gameState.unitAnimations # << >>

\* C12: a document whose phases field is missing or empty never becomes the
\* current replay of the script.
C12_MalformedNeverCurrent == Script => gameData \notin {"E", "N"}

\* C13: with a replay loaded, the load of a file that is not JSON or that has
\* no phase changes neither the current replay, nor the phase index, nor the
\* play flag, nor the timer handle, nor the chat buckets.
C13_FailedLoadKeepsState ==
  [][(gameData \in Replays /\ loadMalformedFile)
       => UNCHANGED <<gameData, currentPhaseIndex, isPlaying, playbackTimer, chatWindows>>]_vars

\* the number of units of phase i of document d, over all powers
UnitCount(d, i) == Len(FlattenUnits(Phases(d)[i + 1].units))

\* C14: whenever the script has planned the unit animations of the displayed
\* phase, the map holds one unit object per unit of that phase and the planner
\* has created one animation per unit.
C14_OneObjectPerUnit ==
  [][(Script /\ AnimationsCreated)
       => /\ unitMeshes' = UnitCount(gameData', currentPhaseIndex')
          /\ Len(unitAnimations') = UnitCount(gameData', currentPhaseIndex')]_vars

\* the units of a phase of one power and type, in iteration order
UnitsOf(phase, power, type) ==
  SelectSeq(FlattenUnits(phase.units),
            LAMBDA e : Matches(e.unitStr) /\ e.power = power /\ e.unitStr[1] = type)

C16_FinishedRemovedOnTick ==
  [][(Script /\ animate) =>
       \A i \in 1..Len(unitAnimations') : unitAnimations'[i].elapsed < AnimSteps]_vars

\* the qualifying messages of phase p (1-based) of replay d, in reveal order
Rel(d, p) == relevantMessages(Phases(d)[p])

\* the armed continuations of reveal chains
Reveal(b) == [t \in {u \in BagToSet(b) : u.kind = "showNext"} |-> b[t]]

Offered(windows, msg) == MsgId(msg) \in windows[TargetPower(msg)].seenMessages

\* a handler called updateChatWindows(phase, true)
RevealInvoked ==
  /\ \/ /\ currentPhaseIndex' # currentPhaseIndex
        /\ \/ last'.op = "next" /\ nextBtnClick
           \/ last'.op = "prev" /\ prevBtnClick
           \/ last'.op = "advance" /\ AdvanceFires
     \/ last'.op = "togglePlayback" /\ ~isPlaying /\ isPlaying' /\ togglePlayback
  /\ Len(Phases(gameData)[currentPhaseIndex' + 1].messages) > 0

\* a continuation of a reveal chain fired
RevealContinued == last'.op = "showNext" /\ ShowNextFires

\* C17: a reveal chain runs its completion branch once, after all of its
\* qualifying messages were offered: a call of the step-wise reveal completes
\* at once when no message qualifies and otherwise offers the first message
\* and arms one continuation; a continuation at index i has offered the first
\* i messages, and when it fires it either offers the next one and arms one
\* continuation or, only at i = number of qualifying messages, clears
\* messagesPlaying, arms the advance when playing with no animation left, and
\* arms nothing more; no other handler removes or adds a continuation.
C17_CompletesOnce ==
  [][Script =>
       /\ \A t \in DOMAIN Reveal(timers) :
            \A j \in 1..t.index : Offered(chatWindows, Rel(t.doc, t.phase)[j])
       /\ RevealContinued =>
            \E t \in DOMAIN Reveal(timers) :
              LET n == Len(Rel(t.doc, t.phase))
                  rest == Reveal(timers) (-) SetToBag({t})
              IN  IF t.index = n
                  THEN /\ ~messagesPlaying'
                       /\ Reveal(timers') = rest
                       /\ (isPlaying /\ Len(unitAnimations) = 0) =>
                            /\ playbackTimer'
                            /\ NumAdvanceTimers' = NumAdvanceTimers + 1
                  ELSE /\ t.index < n
                       /\ messagesPlaying' = messagesPlaying
                       /\ Offered(chatWindows', Rel(t.doc, t.phase)[t.index + 1])
                       /\ Reveal(timers') =
                            rest (+) SetToBag({ShowNextTimer(t.doc, t.phase, t.index + 1)})
       /\ (RevealInvoked /\ ~RevealContinued) =>
            LET d == gameData
                p == currentPhaseIndex' + 1
            IN  IF Len(Rel(d, p)) = 0
                THEN /\ ~messagesPlaying'
                     /\ Reveal(timers') = Reveal(timers)
                ELSE /\ messagesPlaying'
                     /\ Offered(chatWindows', Rel(d, p)[1])
                     /\ Reveal(timers') = Reveal(timers) (+) SetToBag({ShowNextTimer(d, p, 1)})
       /\ (~RevealInvoked /\ ~RevealContinued) => Reveal(timers') = Reveal(timers)]_vars

\* the chain of the last phase of replay A has revealed its three messages
\* and completed
C17_Witness ==
  /\ Script /\ gameData = "A" /\ currentPhaseIndex = 2
  /\ last.op = "showNext" /\ ~messagesPlaying
  /\ Reveal(timers) = EmptyBag
  /\ \A j \in 1..3 : Offered(chatWindows, Rel("A", 3)[j])
  /\ Len(chatWindows["ENGLAND"].messagesContainer) = 2

\* sender or recipient is the viewpoint power, or the recipient is GLOBAL
Qualifies(msg) ==
  msg.sender = "FRANCE" \/ msg.recipient = "FRANCE" \/ msg.recipient = "GLOBAL"

Seen(windows, msg) == \E b \in DOMAIN windows : MsgId(msg) \in windows[b].seenMessages

\* the messages of the phase of replay d called name
MessagesOf(d, name) ==
  LET ph == Phases(d)[CHOOSE i \in 1..NumPhases(d) : Phases(d)[i].name = name]
  IN  {ph.messages[i] : i \in 1..Len(ph.messages)}

\* C18: a step adds at most one entry to the chat buckets; an added entry is a
\* qualifying message of its phase, and every qualifying message of that phase
\* with a smaller time_sent was revealed before it; when the last reveal chain
\* has completed every qualifying message of the displayed phase is revealed.
\* A message that does not qualify is in no bucket.
C18_RevealsQualifyingInOrder ==
  [][Script =>
       LET changed == {b \in DOMAIN chatWindows : chatWindows'[b] # chatWindows[b]}
       IN  /\ Cardinality(changed) <= 1
           /\ \A b \in changed :
                LET c == chatWindows[b].messagesContainer
                    c1 == chatWindows'[b].messagesContainer
                    e == c1[Len(c1)]
                IN  /\ c1 = Append(c, e)
                    /\ e.msg \in MessagesOf(gameData, e.phase)
                    /\ Qualifies(e.msg)
                    /\ \A m \in MessagesOf(gameData, e.phase) :
                         (Qualifies(m) /\ m.time_sent < e.msg.time_sent) => Seen(chatWindows, m)
           /\ (RevealContinued /\ Reveal(timers') = EmptyBag) =>
                \A m \in MessagesOf(gameData, Phases(gameData)[currentPhaseIndex + 1].name) :
                  Qualifies(m) => Seen(chatWindows', m)]_vars

\* the chain of the second phase of replay A is through: "Hi" to GLOBAL is
\* revealed, "Psst" from GERMANY to ENGLAND is in no bucket
C18_Witness ==
  /\ Script /\ gameData = "A" /\ currentPhaseIndex = 1
  /\ last.op = "showNext" /\ Reveal(timers) = EmptyBag
  /\ chatWindows["GLOBAL"].messagesContainer =
       << [msg |-> Msg("FRANCE", "GLOBAL", 100, <<"Hi">>), phase |-> "F1901M"] >>
  /\ \A b \in DOMAIN chatWindows \ {"GLOBAL"} : chatWindows[b].messagesContainer = << >>

\* _setPhase(index) returned after taking the branch index - phaseIndex != 1
PhaseJumped ==
  /\ ~Script
  /\ last'.op \in {"_setPhase", "previousPhase"} /\ ~last'.threw
  /\ SetPhaseCall \/ PreviousPhaseCall
  /\ gameState'.phaseIndex - gameState.phaseIndex # 1

\* C19: after a jump of the phase module no advance timer is pending.
C19_JumpCancelsTimers ==
  [][PhaseJumped => \A t \in BagToSet(timers') : t.kind # "advance"]_vars

\* the Prev button moved the script one phase back
SteppedBack ==
  /\ Script /\ last'.op = "prev" /\ prevBtnClick
  /\ currentPhaseIndex' = currentPhaseIndex - 1

\* C20: a manual move with index - phaseIndex # 1 starts no reveal chain and
\* does not set the messagesPlaying lock, in the script (Prev button) and in
\* the phase module (_setPhase, previousPhase).
C20_JumpSkipsSequencer ==
  [][/\ SteppedBack =>
          /\ messagesPlaying' => messagesPlaying
          /\ Reveal(timers') = Reveal(timers)
     /\ PhaseJumped => (gameState'.messagesPlaying => gameState.messagesPlaying)]_vars

\* the powers whose centers list names the province of a marker
Listers(centers, prov) ==
  {centers[i][1] : i \in {j \in 1..Len(centers) :
                            \E k \in 1..Len(centers[j][2]) :
                              centers[j][2][k] \in {prov, IF prov = "PAR" THEN "par" ELSE prov}}}

ListLength(map, power) ==
  LET at == {i \in 1..Len(map) : map[i][1] = power}
  IN  IF at = {} THEN 0 ELSE Len(map[CHOOSE i \in at : TRUE][2])

\* C22: the leaderboard has one row for every power of the phase's centers or
\* units map, with the length of its centers list and of its units list (0
\* when absent), the rows in non-increasing supply-center count.
C22_LeaderboardTally ==
  (running = "board" /\ last.op = "displayPhase") =>
    LET lb == gameState.leaderboard
        ph == gameState.phase
        powers == {ph.centers[i][1] : i \in 1..Len(ph.centers)}
                  \cup {ph.units[i][1] : i \in 1..Len(ph.units)}
    IN  /\ {lb[i].power : i \in 1..Len(lb)} = powers
        /\ Len(lb) = Cardinality(powers)
        /\ \A i \in 1..Len(lb) :
             /\ lb[i].centers = ListLength(ph.centers, lb[i].power)
             /\ lb[i].units = ListLength(ph.units, lb[i].power)
        /\ \A i, j \in 1..Len(lb) : i < j => lb[i].centers >= lb[j].centers

\* ENGLAND comes first in centers with one center and has no units entry;
\* FRANCE has two centers and one unit and is listed first
C22_Witness ==
  /\ running = "board" /\ last.op = "displayPhase"
  /\ gameState.phase.centers = << <<"ENGLAND", <<"LON">> >>, <<"FRANCE", <<"PAR", "MAR">> >> >>
  /\ gameState.phase.units = << <<"FRANCE", << U("A", "PAR") >> >> >>
  /\ gameState.leaderboard = << [power |-> "FRANCE", centers |-> 2, units |-> 1],
                                [power |-> "ENGLAND", centers |-> 1, units |-> 0] >>

\* the powers with a unit of the phase in province k
Standing(ph, k) ==
  {ph.unitList[i].power : i \in {j \in 1..Len(ph.unitList) : BaseOf(ph.unitList[j].location) = k}}
  \cup LET es == FlattenUnits(ph.units)
       IN  {es[i].power : i \in {j \in 1..Len(es) :
                                   Matches(es[j].unitStr) /\ BaseOf(es[j].unitStr[3]) = k}}

\* C30: after updateMapOwnership a province has an owner only if a unit of
\* the phase stands in it, the owner being that unit's power, and a province
\* no unit of the phase stands in is not shown in a power's colour.
C30_OwnershipRecomputed ==
  (running = "board" /\ last.op = "displayPhase") =>
    \A k \in DOMAIN gameState.provinces :
      LET prov == gameState.provinces[k]
      IN  /\ prov.owner # "none" => prov.owner \in Standing(gameState.phase, k)
          /\ Standing(gameState.phase, k) = {} => prov.color = "map"

C24_AdvanceAfterUnits ==
  [][(Script /\ AnimationsCreated) => NumAdvanceTimers' = 0]_vars

\* what happens without the user: a render tick, the clock, a timer firing
MachineStep == animate \/ Clock \/ AdvanceFires \/ ShowNextFires

\* C25: playback never stalls: in every state with playback on, a render tick
\* or an armed timer can still change the state; otherwise the displayed phase
\* is never followed by an advance.
C25_NeverStuck ==
  (Script /\ isPlaying /\ HasPhases(gameData) /\ NumPhases(gameData) >= 2)
    => ENABLED <<MachineStep>>_vars

\* C26: one call of advanceToNextPhase of the phase module moves the phase
\* index forward by at most one phase.
C26_AdvanceByAtMostOne ==
  [][(~Script /\ last'.op = "advanceToNextPhase" /\ PhaseAdvanceCall)
       => gameState'.phaseIndex - gameState.phaseIndex <= 1]_vars

\* C27: a speed change made while playing with no advance timer armed arms no
\* advance timer.
C27_SpeedChangeArmsNothing ==
  [][(Script /\ last'.op = "speed" /\ speedSelectorChange
        /\ isPlaying /\ NumAdvanceTimers = 0)
       => NumAdvanceTimers' = 0]_vars

\* C28: messagesPlaying is false only if no showNext callback is pending.
C28_LockCoversRevealChains ==
  Script => (~messagesPlaying => Reveal(timers) = EmptyBag)

\* C29: when togglePlayback turns isPlaying off, unitAnimations is emptied and
\* every unit object whose animation is dropped is at the start or at the end
\* position of its transition (togglePlayback writes no position).
C29_PauseLeavesNoPartialMove ==
  [][(Script /\ last'.op = "togglePlayback" /\ togglePlayback /\ isPlaying /\ ~isPlaying')
       => /\ unitAnimations' = << >>
          /\ \A i \in 1..Len(unitAnimations) :
               unitAnimations[i].position \in {0, AnimSteps}]_vars

\* C31: after the replay is loaded no step of the session removes a key from
\* a bucket's seenMessages, and a step adds an entry to a bucket only for a
\* key the bucket had not seen.
C31_SeenKeysOnlyGrow ==
  [][(Script /\ gameData # "null")
       => \A b \in DOMAIN chatWindows :
            /\ b \in DOMAIN chatWindows'
            /\ chatWindows[b].seenMessages \subseteq chatWindows'[b].seenMessages
            /\ LET c == chatWindows[b].messagesContainer
                   d == chatWindows'[b].messagesContainer
               IN  /\ Len(d) >= Len(c)
                   /\ SubSeq(d, 1, Len(c)) = c
                   /\ \A i \in (Len(c) + 1)..Len(d) :
                        MsgId(d[i].msg) \notin chatWindows[b].seenMessages]_vars

\* the timer-driven advance wrapped from the last phase of B to phase 0 and
\* started its reveal chain again; "Ciao" is offered a second time and the
\* GLOBAL bucket still holds it once
C31_Witness ==
  /\ Script /\ gameData = "B" /\ last.op = "advance" /\ last.index = 2
  /\ currentPhaseIndex = 0
  /\ MsgId(Msg("ITALY", "GLOBAL", 5, <<"Ciao">>)) \in chatWindows["GLOBAL"].seenMessages
  /\ Len(chatWindows["GLOBAL"].messagesContainer) = 1

\* a unit string of the form "<A|F> <location>": a type letter, a blank and a
\* location that is not empty
HasUnitForm(unitStr) ==
  /\ unitStr[1] = "A" \/ unitStr[1] = "F"
  /\ unitStr[2] # ""
  /\ unitStr[3] # ""

\* the entries of a units map whose string has that form
WellFormed(phase) ==
  SelectSeq(FlattenUnits(phase.units), LAMBDA e : HasUnitForm(e.unitStr))

\* C32: the planner creates one animation and one unit object for every
\* well-formed unit string of the current phase, in order, and none for a
\* malformed one; a start position comes from a well-formed string of the
\* previous phase or from below, and the call ends without an error.
C32_MalformedSkipped ==
  (running = "planner" /\ last.op = "animateUnitsForPhase")
    => LET w == WellFormed(gameState.currentPhase)
           prev == WellFormed(gameState.previousPhase)
       IN  /\ ~last.threw
           /\ Len(unitAnimations) = Len(w)
           /\ unitMeshes = Len(w)
           /\ \A i \in 1..Len(w) :
                /\ unitAnimations[i].power = w[i].power
                /\ unitAnimations[i].type = w[i].unitStr[1]
                /\ unitAnimations[i].endPos = w[i].unitStr[3]
                /\ \/ unitAnimations[i].startPos = "below"
                   \/ \E j \in 1..Len(prev) :
                        /\ prev[j].power = w[i].power
                        /\ prev[j].unitStr[1] = w[i].unitStr[1]
                        /\ prev[j].unitStr[3] = unitAnimations[i].startPos

\* England's units are "X LON" and "F NTH", with "ANTH" and "F LON" before:
\* one animation, the fleet from LON to NTH
C32_Witness ==
  /\ running = "planner" /\ last.op = "animateUnitsForPhase"
  /\ gameState.currentPhase.units =
       << <<"ENGLAND", << U("X", "LON"), U("F", "NTH") >> >>, <<"FRANCE", << >> >> >>
  /\ gameState.previousPhase.units =
       << <<"ENGLAND", << <<"A", "", "NTH">>, U("F", "LON") >> >>, <<"FRANCE", << >> >> >>
  /\ Len(unitAnimations) = 1
  /\ unitAnimations[1].startPos = "LON" /\ unitAnimations[1].endPos = "NTH"

\* the position of a province of the coordinate file: its label laid on the
\* board plane at height 10
PositionOf(entry) == [x |-> entry.label.x, y |-> 10, z |-> entry.label.y]

\* C33: getProvincePosition returns a position with x, y and z for every
\* location: that of the normalized location when the table has it, otherwise
\* that of the base province code, otherwise the hash fallback; a second call
\* returns the same.
C33_PositionResolved ==
  (running = "coords" /\ last.op = "getProvincePosition again")
    => LET normalized == replaceSlash(toUpperCase(gameState.loc))
           base == splitFirst(normalized)
           data == gameState.coordinateData
           pos == gameState.pos
       IN  /\ DOMAIN pos = {"x", "y", "z"}
           /\ gameState.again = pos
           /\ (data.present /\ normalized \in DOMAIN data.provinces)
                => pos = PositionOf(data.provinces[normalized])
           /\ (data.present /\ normalized \notin DOMAIN data.provinces
                 /\ base \in DOMAIN data.provinces)
                => pos = PositionOf(data.provinces[base])
           /\ (~data.present \/ {normalized, base} \cap DOMAIN data.provinces = {})
                => LET h == hashStringToPosition(gameState.loc)
                   IN  pos = [x |-> h.x, y |-> h.y, z |-> h.z + 100]

\* the variables of the script, the record of the last handler aside
scriptState ==
  <<gameData, currentPhaseIndex, isPlaying, playbackSpeed, playbackTimer, unitAnimations,
    unitMeshes, messagesPlaying, chatWindows, disabled, timers>>

\* C34: a click on next at the last phase and a click on previous at phase 0
\* change nothing; the phase index goes from the last phase to phase 0 only
\* when an advance timer fires, and a firing advance timer at the last phase
\* does go to phase 0.
C34_ManualStepsDoNotWrap ==
  [][(Script /\ gameData # "null" /\ HasPhases(gameData))
       => LET n == NumPhases(gameData)
          IN  /\ (last'.op = "next" /\ nextBtnClick /\ currentPhaseIndex = n - 1)
                   => UNCHANGED scriptState
              /\ (last'.op = "prev" /\ prevBtnClick /\ currentPhaseIndex = 0)
                   => UNCHANGED scriptState
              /\ (gameData' = gameData /\ n > 2
                    /\ currentPhaseIndex = n - 1 /\ currentPhaseIndex' = 0)
                   => (last'.op = "advance" /\ AdvanceFires)
              /\ (last'.op = "advance" /\ AdvanceFires /\ gameData' = gameData
                    /\ n > 0 /\ currentPhaseIndex = n - 1)
                   => currentPhaseIndex' = 0]_vars

\* next was clicked at the last phase of a replay, which is still displayed
C34_Witness ==
  /\ Script /\ gameData # "null" /\ HasPhases(gameData) /\ NumPhases(gameData) = 3
  /\ last.op = "next" /\ last.index = 2 /\ currentPhaseIndex = 2

\* nothing to advance to: no document, no phases list, or at most one phase
NothingToAdvanceTo ==
  gameData = "null" \/ ~HasPhases(gameData) \/ NumPhases(gameData) <= 1

\* C35: a click on Play with no replay or with a replay of at most one phase
\* changes nothing: isPlaying keeps its value, no timer is armed, no reveal
\* chain and no animation is started.
C35_NoPlaybackWithoutPhases ==
  [][(Script /\ last'.op = "togglePlayback" /\ togglePlayback /\ NothingToAdvanceTo)
       => UNCHANGED scriptState]_vars

\* Play was clicked on the one-phase replay, which has a message to reveal;
\* playback is off and nothing is revealed or armed
C35_Witness ==
  /\ Script /\ gameData = "S" /\ last.op = "togglePlayback"
  /\ ~isPlaying /\ ~messagesPlaying /\ timers = EmptyBag
  /\ chatWindows["GLOBAL"].messagesContainer = << >>

\* C36: scene.userData.animatedObjects holds no supply-center marker more than
\* once.
C36_RegisteredOnce ==
  running = "pulse"
    => \A i, j \in 1..Len(gameState.animatedObjects) :
         gameState.animatedObjects[i] = gameState.animatedObjects[j] => i = j

\* the province codes of the board
ProvinceCodes == {"PAR", "MAR", "LON", "BUR", "STP"}

\* the province code a location names: upper case, coast qualifier aside
CodeOf(location) ==
  CASE location \in {"par", "PAR"} -> "PAR"
    [] location \in {"bur", "BUR"} -> "BUR"
    [] location \in {"stp/sc", "STP/SC", "STP"} -> "STP"
    [] OTHER -> location

\* the powers that list a province in centers
ListersOf(centers, prov) ==
  {centers[i][1] : i \in {j \in 1..Len(centers) :
                            \E n \in 1..Len(centers[j][2]) : CodeOf(centers[j][2][n]) = prov}}

\* the units that stand in a province, in the order of the units map
StandingIn(units, prov) ==
  SelectSeq(FlattenUnits(units),
            LAMBDA e : HasUnitForm(e.unitStr) /\ CodeOf(e.unitStr[3]) = prov)

\* C37: buildOwnershipMap maps a province listed in centers to the power that
\* lists it, whatever unit stands in it; a province that no power lists to the
\* power of the first unit found in it; and has no entry for any other
\* province.
C37_CentersBeforeUnits ==
  (running = "territory" /\ last.op = "buildOwnershipMap")
    => LET om == gameState.ownershipMap
       IN  /\ DOMAIN om \subseteq ProvinceCodes
           /\ \A prov \in ProvinceCodes :
                LET listers == ListersOf(gameState.centers, prov)
                    standing == StandingIn(gameState.units, prov)
                IN  /\ listers # {} => (prov \in DOMAIN om /\ listers = {om[prov]})
                    /\ (listers = {} /\ standing # << >>)
                         => (prov \in DOMAIN om /\ om[prov] = standing[1].power)
                    /\ (listers = {} /\ standing = << >>) => prov \notin DOMAIN om

\* France lists PAR where England's army stands, and both have a unit in BUR,
\* which nobody lists: PAR and BUR go to France, STP is absent
C37_Witness ==
  /\ running = "territory" /\ last.op = "buildOwnershipMap"
  /\ gameState.centers = << <<"ENGLAND", << >> >>, <<"FRANCE", <<"par">> >> >>
  /\ gameState.units = << <<"FRANCE", << U("A", "BUR") >> >>, <<"ENGLAND", << U("A", "PAR") >> >> >>
  /\ gameState.ownershipMap = [PAR |-> "FRANCE", BUR |-> "FRANCE"]

====
